---- MODULE Spec2Model ----
(***************************************************************************)
(* pumpduler: a pub/sub server with time-delayed broadcasts.               *)
(*                                                                         *)
(* The model follows the threads of the server: the listener thread        *)
(* (Server._start_listen), one handler thread per accepted connection      *)
(* (ClientManager._handle) and one thread per TimeEventExecutor.  A step   *)
(* of a thread is one request handled, or one critical section.            *)
(***************************************************************************)
EXTENDS Integers, Sequences, FiniteSets, TLC

(***************************************************************************)
(* Bounds of the model.                                                    *)
(***************************************************************************)
NumConns == 3       \* connections that ever reach the listening socket
MaxSubs == 2        \* requests to subscribe are sent while a list is shorter
MaxEvents == 2      \* add_time_event requests sent in one run
MaxFloatEvents == 3 \* the same, in the runs whose exec_timestamp may be NaN
MaxChannels == 2    \* Channel objects alive at one time
MaxTime == 1        \* the clock runs over 0..MaxTime
MaxFrames == 2      \* payloads the peer of the first session writes
MaxPayload == 2     \* bytes of a payload
MaxTail == 1        \* bytes written after the last end sign

\* config.MAX_CLIENTS, set to 2 as in the admission scenario of the spec
MAX_CLIENTS == 2

\* config.READ_SIZE, the most bytes one recv returns
READ_SIZE == 4

\* the depth of nesting at which json.loads gives up with RecursionError
RecursionLimit == 2

Conns == 1..NumConns
Names == {"x"}
Data == {"a"}
Times == 0..MaxTime
EventIds == 1..(IF MaxEvents > MaxFloatEvents THEN MaxEvents ELSE MaxFloatEvents)

\* SeverToClientMessageTypes
TIME_EVENT == "time_event"
PUBLISHED_EVENT == "published_event"
MESSAGE == "message"
ERROR_MESSAGE == "error_message"

\* Actions: the keys of Client.action_func_mapping
Actions == {"ping", "subscribe", "unsubscribe", "info", "publish", "add_time_event"}

\* A decoded request, as far as process_message looks at it: whether the value
\* is an object, the keys the object has, and the value under "action": the
\* name of a verb, a string that names none, or "[]" for an array (a list is
\* not hashable), "" when the key is absent.
Keys == {"action", "channel_name"}
ActionValues == {"subscribe", "bogus", "[]"}
NoReq == [obj |-> FALSE, keys |-> {}, action |-> ""]
Requests ==
    {m \in [obj : BOOLEAN, keys : SUBSET Keys, action : ActionValues \cup {""}] :
        /\ ~m.obj => m = NoReq
        /\ ("action" \in m.keys) <=> (m.action # "")}

VARIABLES
    peer,         \* per connection, the remote end: none, connected, eof, reset
    sock,         \* per connection, the server's socket object: none, open, closed
    lpc,          \* listener thread: wait (on the event), accept, add
    lsock,        \* the connection accept() returned to the listener, 0 when none
    gate,         \* Server._accept_connections_event
    clients,      \* ClientManager._clients
    hpc,          \* handler thread of a connection: none, run, dead, done
    channels,     \* ChannelManager._channels: name -> Channel._clients
    time_events,  \* TimeEventManager._time_events
    executor,     \* TimeEventManager._executor: index into executors, 0 for None
    executors,    \* every TimeEventExecutor created, with its thread's position
    now,          \* the clock read by get_datetime()
    nextId,       \* ids handed out so far (uuid4: never repeated)
    io,           \* what the latest step sent, and to whom
    delivs,       \* per event id, the fan-outs that delivered a time_event frame
    received,     \* per event id and session, the time_event frames of that
                  \* event that sendall has taken for the session's socket
    written,      \* what the peer of the first session wrote: payloads, each
                  \* followed by the end sign, then bytes without an end sign
    wire,         \* the bytes written that recv has not returned yet
    data,         \* _handle's buffer of that session
    yielded,      \* the payloads the loop of _handle has split off so far
    handled,      \* the decoded values it has given to process_message
    reg,          \* ChannelManager._channels, statement by statement: name ->
                  \* index of a Channel object in heap
    heap,         \* the Channel objects: _clients, and the holder of _lock
    task,         \* per thread inside a registry call: the statement it is
                  \* at and its local values
    clients_lock, \* the holder of ClientManager._clients_lock, 0 when free
    locking       \* per thread, lock by lock: the locks it holds and the
                  \* acquisitions and releases its call has still to do

vars == <<peer, sock, lpc, lsock, gate, clients, hpc, channels, time_events,
          executor, executors, now, nextId, io, delivs, received,
          written, wire, data, yielded, handled,
          reg, heap, task, clients_lock, locking>>

netVars == <<peer, sock>>
listenerVars == <<lpc, lsock>>
schedVars == <<time_events, executor, executors, nextId, delivs, received>>
readVars == <<written, wire, data, yielded, handled>>
raceVars == <<reg, heap, task, clients_lock, locking>>

----------------------------------------------------------------------------
(***************************************************************************)
(* Sequences.                                                              *)
(***************************************************************************)
Range(s) == {s[i] : i \in 1..Len(s)}

\* list.remove(x): the first occurrence is removed (x is in s)
RemoveFirst(s, x) ==
    LET i == CHOOSE k \in 1..Len(s) : s[k] = x /\ \A j \in 1..(k - 1) : s[j] # x
    IN SubSeq(s, 1, i - 1) \o SubSeq(s, i + 1, Len(s))

\* the entries of the list s that are x
Occurrences(s, x) == Cardinality({i \in 1..Len(s) : s[i] = x})

\* What a step sent: the verb or operation (op), the session that asked (by),
\* the channel, the message type and data, the subscriber list the fan-out
\* iterated (subs), the sessions sendall was called for (sent) and those it
\* returned for (delivered), whether an exception left the operation (raised),
\* the id of the time event (ev), the request process_message was given (req).
NoIo == [op |-> "none", by |-> 0, chan |-> "", type |-> "", data |-> "",
         subs |-> <<>>, sent |-> <<>>, delivered |-> <<>>, raised |-> FALSE,
         ev |-> 0, req |-> NoReq]

----------------------------------------------------------------------------
(***************************************************************************)
(* Sockets.  sendall on a socket whose peer is connected succeeds; on a    *)
(* socket closed by _remove_client it raises OSError; after the peer has   *)
(* closed, a send succeeds or raises (the first write after a FIN is       *)
(* accepted by the kernel, later ones raise BrokenPipeError); after a      *)
(* reset it raises.                                                        *)
(***************************************************************************)
CanSucceed(c) == sock[c] = "open" /\ peer[c] \in {"connected", "eof"}
CanFail(c) == sock[c] # "open" \/ peer[c] \in {"eof", "reset"}

\* Client.send_message to c: whether sendall raises
send_message(c) == {raised \in BOOLEAN : IF raised THEN CanFail(c) ELSE CanSucceed(c)}

\* Channel.broadcast: the sends of one fan-out over the subscriber list l.  The
\* loop stops at the first send that raises, and the exception leaves the loop.
\* k sends succeed and, when k < Len(l), the send to l[k+1] raises.
FanOutLengths(l) ==
    {k \in 0..Len(l) : /\ \A i \in 1..k : FALSE \in send_message(l[i])
                       /\ k < Len(l) => TRUE \in send_message(l[k + 1])}

Channel_broadcast(l) ==
    {[sent |-> SubSeq(l, 1, IF k < Len(l) THEN k + 1 ELSE k),
      delivered |-> SubSeq(l, 1, k),
      raised |-> k < Len(l)] : k \in FanOutLengths(l)}

\* ChannelManager.broadcast_message for one channel name: a name without an
\* entry is skipped
broadcast_message(n) ==
    IF n \in DOMAIN channels
    THEN Channel_broadcast(channels[n])
    ELSE {[sent |-> <<>>, delivered |-> <<>>, raised |-> FALSE]}

\* the subscriber list a broadcast to n iterates
Subscribers(n) == IF n \in DOMAIN channels THEN channels[n] ELSE <<>>

----------------------------------------------------------------------------
(***************************************************************************)
(* Channel registry.                                                       *)
(***************************************************************************)
\* ChannelManager.subscribe: the channel is created when absent, then
\* Channel.subscribe appends the client
ChannelManager_subscribe(chs, n, c) ==
    LET base == IF n \in DOMAIN chs THEN chs ELSE (n :> <<>>) @@ chs
    IN [base EXCEPT ![n] = Append(@, c)]

\* unsubscribe that never destroys a channel
ShouldDestroy_never(l) == FALSE

\* the test that destroys a channel after an unsubscribe
ShouldDestroy(l) == Len(l) = 0

\* ChannelManager.unsubscribe: list.remove raises ValueError when the client
\* is not in the list
ChannelManager_unsubscribe(chs, n, c) ==
    IF n \notin DOMAIN chs
    THEN [channels |-> chs, raised |-> FALSE]
    ELSE IF c \notin Range(chs[n])
    THEN [channels |-> chs, raised |-> TRUE]
    ELSE LET l == RemoveFirst(chs[n], c)
         IN [channels |-> IF ShouldDestroy(l)
                          THEN [k \in DOMAIN chs \ {n} |-> chs[k]]
                          ELSE [chs EXCEPT ![n] = l],
             raised |-> FALSE]

\* ChannelManager.get_subscribed_channels
get_subscribed_channels(chs, c) == {n \in DOMAIN chs : c \in Range(chs[n])}

\* the loop of _remove_client over the subscribed channels
RECURSIVE UnsubscribeAll(_, _, _)
UnsubscribeAll(chs, ns, c) ==
    IF ns = {} THEN chs
    ELSE LET n == CHOOSE m \in ns : TRUE
         IN UnsubscribeAll(ChannelManager_unsubscribe(chs, n, c).channels, ns \ {n}, c)

----------------------------------------------------------------------------
(***************************************************************************)
(* The peers.                                                              *)
(***************************************************************************)
\* a client connects: the connection waits in the listen queue (connections
\* are numbered in the order they arrive)
PeerConnect(c) ==
    /\ peer[c] = "none"
    /\ \A b \in 1..(c - 1) : peer[b] # "none"
    /\ peer' = [peer EXCEPT ![c] = "connected"]
    /\ io' = NoIo
    /\ UNCHANGED <<sock, lpc, lsock, gate, clients, hpc, channels, now>>
    /\ UNCHANGED schedVars
    /\ UNCHANGED readVars
    /\ UNCHANGED raceVars

\* the peer of an accepted connection closes it (eof) or aborts it (reset)
PeerClose(c) ==
    /\ peer[c] = "connected"
    /\ hpc[c] # "none"
    /\ \E how \in {"eof", "reset"} : peer' = [peer EXCEPT ![c] = how]
    /\ io' = NoIo
    /\ UNCHANGED <<sock, lpc, lsock, gate, clients, hpc, channels, now>>
    /\ UNCHANGED schedVars
    /\ UNCHANGED readVars
    /\ UNCHANGED raceVars

----------------------------------------------------------------------------
(***************************************************************************)
(* Listener and admission.                                                 *)
(***************************************************************************)
\* Server._start_listen: self._accept_connections_event.wait()
start_listen_wait ==
    /\ lpc = "wait"
    /\ gate
    /\ lpc' = "accept"
    /\ io' = NoIo
    /\ UNCHANGED <<peer, sock, lsock, gate, clients, hpc, channels, now>>
    /\ UNCHANGED schedVars
    /\ UNCHANGED readVars
    /\ UNCHANGED raceVars

\* Server._start_listen: self.sock.accept()
start_listen_accept ==
    /\ lpc = "accept"
    /\ \E c \in Conns :
        /\ peer[c] # "none"
        /\ sock[c] = "none"
        /\ sock' = [sock EXCEPT ![c] = "open"]
        /\ lsock' = c
    /\ lpc' = "add"
    /\ io' = NoIo
    /\ UNCHANGED <<peer, gate, clients, hpc, channels, now>>
    /\ UNCHANGED schedVars
    /\ UNCHANGED readVars
    /\ UNCHANGED raceVars

\* add_client with the test for MAX_CLIENTS off by one
GateAfterAdd_late(cl, g) == IF Len(cl) = MAX_CLIENTS + 1 THEN FALSE ELSE g

\* add_client: the event after the client was appended to the list cl
GateAfterAdd(cl, g) == IF Len(cl) = MAX_CLIENTS THEN FALSE ELSE g

\* ClientManager.add_client, under _clients_lock; the handler thread starts
add_client ==
    /\ lpc = "add"
    /\ clients' = Append(clients, lsock)
    /\ gate' = GateAfterAdd(clients', gate)
    /\ hpc' = [hpc EXCEPT ![lsock] = "run"]
    /\ lpc' = "wait"
    /\ lsock' = 0
    /\ io' = NoIo
    /\ UNCHANGED <<peer, sock, channels, now>>
    /\ UNCHANGED schedVars
    /\ UNCHANGED readVars
    /\ UNCHANGED raceVars

\* _remove_client: the event after the client was removed, the list now cl
GateAfterRemove(cl, g) == IF Len(cl) < MAX_CLIENTS THEN TRUE ELSE g

\* socket.shutdown(SHUT_RDWR) on the socket of c: after a reset the socket is
\* no longer connected and shutdown may raise OSError (ENOTCONN)
ShutdownRaises(c) == IF peer[c] = "reset" THEN {TRUE, FALSE} ELSE {FALSE}

\* ClientManager._handle: recv returns b"" or raises ConnectionError, and
\* _remove_client runs under _clients_lock.  When shutdown raises, the rest of
\* _remove_client (close, the event) is not run and the thread ends by the
\* exception.
remove_client(c) ==
    /\ hpc[c] = "run"
    /\ peer[c] \in {"eof", "reset"}
    /\ channels' = UnsubscribeAll(channels, get_subscribed_channels(channels, c), c)
    /\ clients' = RemoveFirst(clients, c)
    /\ \E raises \in ShutdownRaises(c) :
        /\ IF raises
           THEN /\ hpc' = [hpc EXCEPT ![c] = "dead"]
                /\ UNCHANGED <<sock, gate>>
           ELSE /\ hpc' = [hpc EXCEPT ![c] = "done"]
                /\ sock' = [sock EXCEPT ![c] = "closed"]
                /\ gate' = GateAfterRemove(clients', gate)
        /\ io' = [NoIo EXCEPT !.op = "remove", !.by = c, !.raised = raises]
    /\ UNCHANGED <<peer, lpc, lsock, now>>
    /\ UNCHANGED schedVars
    /\ UNCHANGED readVars
    /\ UNCHANGED raceVars

----------------------------------------------------------------------------
(***************************************************************************)
(* Requests.  Client.process_message runs in the handler thread, outside   *)
(* the try of _handle: an exception a verb raises ends the thread.         *)
(***************************************************************************)
\* a request of c has been received and decoded
Handling(c) == hpc[c] = "run" /\ peer[c] \in {"connected", "eof"}

\* the handler thread after a verb returned or raised
AfterVerb(c, raised) == [hpc EXCEPT ![c] = IF raised THEN "dead" ELSE "run"]

\* the parameters a verb's function has no default for
Required(a) ==
    IF a \in {"subscribe", "unsubscribe"} THEN {"channel_name"}
    ELSE IF a = "publish" THEN {"channel_name", "data"}
    ELSE IF a = "add_time_event" THEN {"channel_name", "exec_timestamp", "data"}
    ELSE {}

\* Client.process_message on the decoded value m: "call" when the verb's
\* function is called with its parameters, "unknown" when the action is in no
\* mapping, else the exception raised: data['action'] on a value that is not
\* an object or has no such key, the lookup of an action that is not hashable,
\* func(**data) without a required parameter
process_result(m) ==
    IF ~m.obj THEN "TypeError"
    ELSE IF "action" \notin m.keys THEN "KeyError"
    ELSE IF m.action = "[]" THEN "TypeError"
    ELSE IF m.action \notin Actions THEN "unknown"
    ELSE IF Required(m.action) \subseteq m.keys THEN "call"
    ELSE "TypeError"

\* Client.process_message on a request that calls no verb: the error_message
\* to the requester, or the exception, which ends the handler thread
process_message(c, m) ==
    /\ Handling(c)
    /\ process_result(m) # "call"
    /\ IF process_result(m) = "unknown"
       THEN \E raised \in send_message(c) :
             /\ io' = [NoIo EXCEPT !.op = "process_message", !.by = c, !.req = m,
                                   !.type = ERROR_MESSAGE, !.data = m.action,
                                   !.sent = <<c>>, !.raised = raised,
                                   !.delivered = IF raised THEN <<>> ELSE <<c>>]
             /\ hpc' = AfterVerb(c, raised)
       ELSE /\ io' = [NoIo EXCEPT !.op = "process_message", !.by = c, !.req = m,
                                  !.raised = TRUE]
            /\ hpc' = AfterVerb(c, TRUE)
    /\ UNCHANGED <<peer, sock, lpc, lsock, gate, clients, channels, now>>
    /\ UNCHANGED schedVars
    /\ UNCHANGED readVars
    /\ UNCHANGED raceVars

\* Client._ping: PONG is sent to the requester
ping(c) ==
    /\ Handling(c)
    /\ \E raised \in send_message(c) :
        /\ io' = [NoIo EXCEPT !.op = "ping", !.by = c, !.type = MESSAGE,
                              !.data = "PONG", !.raised = raised, !.sent = <<c>>,
                              !.delivered = IF raised THEN <<>> ELSE <<c>>]
        /\ hpc' = AfterVerb(c, raised)
    /\ UNCHANGED <<peer, sock, lpc, lsock, gate, clients, channels, now>>
    /\ UNCHANGED schedVars
    /\ UNCHANGED readVars
    /\ UNCHANGED raceVars

\* Client._subscribe
subscribe(c, n) ==
    /\ Handling(c)
    /\ Len(Subscribers(n)) < MaxSubs
    /\ channels' = ChannelManager_subscribe(channels, n, c)
    /\ io' = [NoIo EXCEPT !.op = "subscribe", !.by = c, !.chan = n,
                          !.subs = Subscribers(n)]
    /\ UNCHANGED <<peer, sock, lpc, lsock, gate, clients, hpc, now>>
    /\ UNCHANGED schedVars
    /\ UNCHANGED readVars
    /\ UNCHANGED raceVars

\* Client._unsubscribe
unsubscribe(c, n) ==
    /\ Handling(c)
    /\ LET r == ChannelManager_unsubscribe(channels, n, c)
       IN /\ channels' = r.channels
          /\ hpc' = AfterVerb(c, r.raised)
          /\ io' = [NoIo EXCEPT !.op = "unsubscribe", !.by = c, !.chan = n,
                                !.subs = Subscribers(n), !.raised = r.raised]
    /\ UNCHANGED <<peer, sock, lpc, lsock, gate, clients, now>>
    /\ UNCHANGED schedVars
    /\ UNCHANGED readVars
    /\ UNCHANGED raceVars

\* Client._publish
publish(c, n, d) ==
    /\ Handling(c)
    /\ \E o \in broadcast_message(n) :
        /\ io' = [NoIo EXCEPT !.op = "publish", !.by = c, !.chan = n,
                              !.type = PUBLISHED_EVENT, !.data = d,
                              !.subs = Subscribers(n), !.sent = o.sent,
                              !.delivered = o.delivered, !.raised = o.raised]
        /\ hpc' = AfterVerb(c, o.raised)
    /\ UNCHANGED <<peer, sock, lpc, lsock, gate, clients, channels, now>>
    /\ UNCHANGED schedVars
    /\ UNCHANGED readVars
    /\ UNCHANGED raceVars

----------------------------------------------------------------------------
(***************************************************************************)
(* The read loop of _handle, for the first session.  Bytes are the end     *)
(* sign and two payload bytes: "s" alone is the encoding of a request to   *)
(* subscribe to x, "[" opens an array.                                     *)
(***************************************************************************)
Reader == 1

\* PumpdulerMessage.MESSAGE_END_SIGN
MESSAGE_END_SIGN == "\n"
PayloadBytes == {"s", "["}

Payloads == UNION {[1..m -> PayloadBytes] : m \in 0..MaxPayload}
PayloadSeqs == UNION {[1..k -> Payloads] : k \in 0..MaxFrames}
Tails == UNION {[1..m -> PayloadBytes] : m \in 0..MaxTail}

\* PumpdulerMessage.dump after the parser's encode: the end sign is appended
dump(p) == Append(p, MESSAGE_END_SIGN)

\* the bytes of the payloads ps, dumped one after the other
RECURSIVE Stream(_)
Stream(ps) == IF ps = <<>> THEN <<>> ELSE dump(Head(ps)) \o Stream(Tail(ps))

\* the request "s" decodes to
SubscribeX == [obj |-> TRUE, keys |-> {"action", "channel_name"}, action |-> "subscribe"]

\* PumpdulerMessage.load -> JSON.decode -> json.loads: the value, or the
\* exception raised.  Arrays nested RecursionLimit deep end the scan by
\* RecursionError, whatever follows; any other text that is no document is a
\* ValueError (JSONDecodeError; UnicodeDecodeError is one too).
load(p) ==
    IF p = <<"s">> THEN "value"
    ELSE IF Len(p) >= RecursionLimit /\ \A i \in 1..RecursionLimit : p[i] = "["
    THEN "RecursionError"
    ELSE "ValueError"

\* MESSAGE_END_SIGN in data
HasEnd(b) == \E i \in 1..Len(b) : b[i] = MESSAGE_END_SIGN

\* a split at the last end sign
FirstEnd_last(b) ==
    CHOOSE i \in 1..Len(b) :
        b[i] = MESSAGE_END_SIGN /\ \A j \in (i + 1)..Len(b) : b[j] # MESSAGE_END_SIGN

\* the index data.split(MESSAGE_END_SIGN, 1) splits at
FirstEnd(b) ==
    CHOOSE i \in 1..Len(b) :
        b[i] = MESSAGE_END_SIGN /\ \A j \in 1..(i - 1) : b[j] # MESSAGE_END_SIGN

\* processable_entity, data = data.split(MESSAGE_END_SIGN, 1)
split(b) == [processable_entity |-> SubSeq(b, 1, FirstEnd(b) - 1),
             data |-> SubSeq(b, FirstEnd(b) + 1, Len(b))]

\* the inner loop of _handle on the state st = [data, yielded, handled,
\* channels, alive]: while the end sign is in data, split, load, and either
\* drop the payload (ValueError), give the value to process_message (here
\* always a subscribe to x), or leave the loop by the exception
RECURSIVE Drain(_)
Drain(st) ==
    IF ~st.alive \/ ~HasEnd(st.data) THEN st
    ELSE LET sp == split(st.data)
             next == [st EXCEPT !.data = sp.data,
                                !.yielded = Append(@, sp.processable_entity)]
             r == load(sp.processable_entity)
         IN IF r = "ValueError" THEN Drain(next)
            ELSE IF r = "value"
            THEN Drain([next EXCEPT !.handled = Append(@, SubscribeX),
                                    !.channels = ChannelManager_subscribe(@, "x", Reader)])
            ELSE [next EXCEPT !.alive = FALSE]

\* ClientManager._handle: one pass of the outer loop in which recv returns k
\* bytes
handle(k) ==
    /\ hpc[Reader] = "run"
    /\ peer[Reader] = "connected"
    /\ k \in 1..READ_SIZE
    /\ k <= Len(wire)
    /\ LET chunk == SubSeq(wire, 1, k)
           st == Drain([data |-> data \o chunk, yielded |-> yielded,
                        handled |-> handled, channels |-> channels, alive |-> TRUE])
       IN /\ wire' = SubSeq(wire, k + 1, Len(wire))
          /\ data' = st.data
          /\ yielded' = st.yielded
          /\ handled' = st.handled
          /\ channels' = st.channels
          /\ hpc' = [hpc EXCEPT ![Reader] = IF st.alive THEN "run" ELSE "dead"]
          /\ io' = [NoIo EXCEPT !.op = "recv", !.by = Reader, !.raised = ~st.alive]
    /\ UNCHANGED <<peer, sock, lpc, lsock, gate, clients, now, written>>
    /\ UNCHANGED schedVars
    /\ UNCHANGED raceVars

\* nothing was written to the first session
NothingWritten ==
    /\ written = [payloads |-> <<>>, tail |-> <<>>]
    /\ wire = <<>>
    /\ data = <<>>
    /\ yielded = <<>>
    /\ handled = <<>>

----------------------------------------------------------------------------
(***************************************************************************)
(* Time events.  An event is [id, channel, exec_timestamp, data] (its      *)
(* timestamp of creation is only copied into the payload and is left out); *)
(* an executor is [time_event, is_skipped, pc], pc the position of its     *)
(* thread: wait (in _wait_event.wait, or before it), fire (past the test   *)
(* of _is_skipped, calling broadcast_func), exit.                          *)
(***************************************************************************)
\* json.loads reads the token NaN as the float nan; an exec_timestamp is one
\* of Times or NaN (a value outside Times stands for it)
NaN == 0 - 1

\* float.__lt__: every comparison with nan is false
Lt(a, b) == a # NaN /\ b # NaN /\ a < b

\* list.sort(key=exec_timestamp) as CPython runs it on a list of fewer than 64
\* elements: count_run finds the leading run (reversed when strictly
\* descending), binarysort inserts each later element by binary search.  On
\* keys that are totally ordered it is the stable sort.
RECURSIVE RunEnd(_, _, _)
RunEnd(l, k, descending) ==
    IF k < Len(l) /\ (Lt(l[k + 1].exec_timestamp, l[k].exec_timestamp) = descending)
    THEN RunEnd(l, k + 1, descending)
    ELSE k

count_run(l) ==
    IF Len(l) <= 1 THEN [n |-> Len(l), descending |-> FALSE]
    ELSE LET d == Lt(l[2].exec_timestamp, l[1].exec_timestamp)
         IN [n |-> RunEnd(l, 2, d), descending |-> d]

Reverse(l) == [i \in 1..Len(l) |-> l[Len(l) + 1 - i]]

\* the binary search of binarysort: the number of elements of a[lo+1..hi]
\* left before the pivot e
RECURSIVE BinarySearch(_, _, _, _)
BinarySearch(a, e, lo, hi) ==
    IF lo >= hi THEN lo
    ELSE LET p == lo + (hi - lo) \div 2
         IN IF Lt(e.exec_timestamp, a[p + 1].exec_timestamp)
            THEN BinarySearch(a, e, lo, p)
            ELSE BinarySearch(a, e, p + 1, hi)

\* one insertion of binarysort: the pivot e into the sorted part l
Insert(l, e) ==
    LET k == BinarySearch(l, e, 0, Len(l))
    IN SubSeq(l, 1, k) \o <<e>> \o SubSeq(l, k + 1, Len(l))

RECURSIVE binarysort(_, _)
binarysort(a, start) ==
    IF start >= Len(a) THEN a
    ELSE binarysort(Insert(SubSeq(a, 1, start), a[start + 1])
                      \o SubSeq(a, start + 2, Len(a)), start + 1)

sort(l) ==
    LET r == count_run(l)
        run == SubSeq(l, 1, r.n)
    IN binarysort((IF r.descending THEN Reverse(run) ELSE run)
                    \o SubSeq(l, r.n + 1, Len(l)), r.n)

\* get_event that returns the event at the last index
get_event_last(evs) == IF Len(evs) > 0 THEN <<evs[Len(evs)]>> ELSE <<>>

\* TimeEventManager.get_event: the event at index 0, as a sequence of 0 or 1
get_event(evs) == IF Len(evs) > 0 THEN <<evs[1]>> ELSE <<>>

\* skip that does not mark the executor
skip_none(x) == x

\* TimeEventExecutor.skip
skip(x) == [x EXCEPT !.is_skipped = TRUE]

\* _start that calls broadcast_func whatever _is_skipped holds
AfterWait_fires(x) == "fire"

\* TimeEventExecutor._start after the wait: return when skipped, else call
\* broadcast_func
AfterWait(x) == IF x.is_skipped THEN "exit" ELSE "fire"

\* TimeEventExecutor(args) and start()
NewExecutor(e) == [time_event |-> e, is_skipped |-> FALSE, pc |-> "wait"]

\* An executor whose thread has ended and which _executor does not refer to is
\* referenced by nothing: it is collected, and its slot keeps no content.
Collected == [time_event |-> [id |-> 0, channel |-> "", exec_timestamp |-> 0, data |-> ""],
              is_skipped |-> TRUE, pc |-> "exit"]

Collect(exs, ex) ==
    [i \in 1..Len(exs) |-> IF exs[i].pc = "exit" /\ i # ex THEN Collected ELSE exs[i]]

\* _update_executor that stops at the skip() of an executor that has already
\* fired or been skipped
update_executor_stops(evs, ex, exs) ==
    LET current == get_event(evs)
        same == /\ ex # 0
                /\ current # <<>>
                /\ exs[ex].time_event.id = current[1].id
        over == ex # 0 /\ (exs[ex].is_skipped \/ exs[ex].pc # "wait")
        skipped == IF ex # 0 THEN [exs EXCEPT ![ex] = skip(@)] ELSE exs
    IN IF same THEN [executor |-> ex, executors |-> exs]
       ELSE IF current # <<>> /\ ~over
       THEN [executor |-> Len(exs) + 1,
             executors |-> Append(skipped, NewExecutor(current[1]))]
       ELSE [executor |-> ex, executors |-> skipped]

\* TimeEventManager._update_executor, under _executor_lock: the executor and
\* the executors after it ran on the events evs
update_executor(evs, ex, exs) ==
    LET current == get_event(evs)
        same == /\ ex # 0
                /\ current # <<>>
                /\ exs[ex].time_event.id = current[1].id
        skipped == IF ex # 0 THEN [exs EXCEPT ![ex] = skip(@)] ELSE exs
    IN IF same THEN [executor |-> ex, executors |-> exs]
       ELSE IF current # <<>>
       THEN [executor |-> Len(exs) + 1,
             executors |-> Append(skipped, NewExecutor(current[1]))]
       ELSE [executor |-> ex, executors |-> skipped]

\* Client._add_time_event -> TimeEventManager.add_event, under _lock
add_time_event(c, n, ts, d) ==
    /\ Handling(c)
    /\ LET e == [id |-> nextId + 1, channel |-> n, exec_timestamp |-> ts, data |-> d]
           u == update_executor(sort(Append(time_events, e)), executor, executors)
       IN /\ time_events' = sort(Append(time_events, e))
          /\ executor' = u.executor
          /\ executors' = Collect(u.executors, u.executor)
          /\ io' = [NoIo EXCEPT !.op = "add_time_event", !.by = c, !.chan = n,
                                !.ev = e.id]
    /\ nextId' = nextId + 1
    /\ UNCHANGED <<peer, sock, lpc, lsock, gate, clients, hpc, channels, now, delivs,
                   received>>
    /\ UNCHANGED readVars
    /\ UNCHANGED raceVars

\* a wait that returns at any time
WaitOver_early(x) == TRUE

\* _wait_event.wait(timeout=exec_timestamp - now) has returned: the deadline is
\* reached (or timeout_time > 0 was false: no wait at all) or skip() has set
\* _wait_event
WaitOver(x) == x.is_skipped \/ ~Lt(now, x.time_event.exec_timestamp)

\* TimeEventExecutor._start: the wait ends at the deadline or when skip() sets
\* _wait_event; then _is_skipped is read
executor_start(t) ==
    /\ executors[t].pc = "wait"
    /\ WaitOver(executors[t])
    /\ executors' = Collect([executors EXCEPT ![t].pc = AfterWait(executors[t])],
                            executor)
    /\ io' = NoIo
    /\ UNCHANGED <<peer, sock, lpc, lsock, gate, clients, hpc, channels,
                   time_events, executor, now, nextId, delivs, received>>
    /\ UNCHANGED readVars
    /\ UNCHANGED raceVars

\* _broadcast without the comparison of the ids
\* a pop that removes the event at the last index
pop_last(evs) == SubSeq(evs, 1, Len(evs) - 1)

\* self._time_events.pop(0)
pop(evs) == Tail(evs)

IsFirstEvent_any(evs, e) == get_event(evs) # <<>>

\* _broadcast: the test that the executor's event is the stored first event
IsFirstEvent(evs, e) == get_event(evs) # <<>> /\ get_event(evs)[1].id = e.id

\* TimeEventManager._broadcast, called by the executor's thread, under _lock
TimeEventManager_broadcast(t) ==
    /\ executors[t].pc = "fire"
    /\ LET e == executors[t].time_event
           exited == [executors EXCEPT ![t].pc = "exit"]
       IN IF IsFirstEvent(time_events, e)
          THEN \E o \in broadcast_message(e.channel) :
                /\ io' = [NoIo EXCEPT !.op = "fire", !.chan = e.channel,
                                      !.type = TIME_EVENT, !.data = e.data,
                                      !.subs = Subscribers(e.channel),
                                      !.sent = o.sent,
                                      !.delivered = o.delivered,
                                      !.raised = o.raised, !.ev = e.id]
                /\ delivs' = [delivs EXCEPT ![e.id] =
                                 IF o.delivered # <<>> THEN @ + 1 ELSE @]
                /\ received' = [received EXCEPT ![e.id] =
                                 [c \in Conns |-> @[c] + Occurrences(o.delivered, c)]]
                /\ IF o.raised
                   THEN /\ executors' = Collect(exited, executor)
                        /\ UNCHANGED <<time_events, executor>>
                   ELSE LET u == update_executor(pop(time_events), executor, exited)
                        IN /\ time_events' = pop(time_events)
                           /\ executor' = u.executor
                           /\ executors' = Collect(u.executors, u.executor)
          ELSE /\ io' = [NoIo EXCEPT !.op = "discard", !.ev = e.id]
               /\ executors' = Collect(exited, executor)
               /\ UNCHANGED <<time_events, executor, delivs, received>>
    /\ UNCHANGED <<peer, sock, lpc, lsock, gate, clients, hpc, channels, now, nextId>>
    /\ UNCHANGED readVars
    /\ UNCHANGED raceVars

\* the clock advances
Tick ==
    /\ now < MaxTime
    /\ now' = now + 1
    /\ io' = NoIo
    /\ UNCHANGED <<peer, sock, lpc, lsock, gate, clients, hpc, channels>>
    /\ UNCHANGED schedVars
    /\ UNCHANGED readVars
    /\ UNCHANGED raceVars

----------------------------------------------------------------------------
(***************************************************************************)
(* The registry, statement by statement.  ChannelManager has no lock of    *)
(* its own: between two statements of subscribe, unsubscribe,              *)
(* get_subscribed_channels and broadcast_message another thread may run.   *)
(* _channels is reg, a Channel object is [clients, lock] in heap, and a    *)
(* thread inside a call is task[c]: pc the statement it is at, n the name, *)
(* ref the Channel object it holds, pos its position in a fan-out, keys    *)
(* and size the keys its iteration of the dict has still to visit and the  *)
(* size of the dict when the iteration began, todo the channels            *)
(* _remove_client has still to leave, removing whether it is inside        *)
(* _remove_client.  The threads are the handlers of the admitted sessions  *)
(* and the thread of the timer that is firing (one at most: _broadcast     *)
(* holds TimeEventManager._lock).                                          *)
(***************************************************************************)
\* the sessions of a server that is full
Admitted == 1..MAX_CLIENTS

\* the thread of the executor that is firing
Timer == NumConns + 1
Tasks == Admitted \cup {Timer}

\* the threads that take locks: the handlers of the sessions, the threads of
\* two executors (one that was skipped after its wait was over, and its
\* successor) and the thread of the accept loop
Executors == {Timer, Timer + 1}
Acceptor == Timer + 2
Threads == Admitted \cup Executors \cup {Acceptor}

\* a thread outside every with block
NoLocks == [held |-> <<>>, todo |-> <<>>]

IdleTask == [pc |-> "idle", n |-> "", ref |-> 0, pos |-> 0, keys |-> {},
             size |-> 0, todo |-> {}, removing |-> FALSE]

\* Channel(name=name)
NewChannel == [clients |-> <<>>, lock |-> 0]

\* no thread is inside a registry call and no Channel object exists
RegistryIdle ==
    /\ reg = [n \in {} |-> 0]
    /\ heap = <<>>
    /\ task = [c \in Tasks |-> IdleTask]
    /\ clients_lock = 0
    /\ locking = [t \in Threads |-> NoLocks]

\* the Channel objects something refers to: the dict or a thread
Referenced == {reg[n] : n \in DOMAIN reg} \cup {task[c].ref : c \in Tasks}

\* the place of a new Channel object: one that nothing refers to any more, or
\* a new one
NewSlot ==
    LET free == {o \in DOMAIN heap : o \notin Referenced}
    IN IF free # {} THEN CHOOSE o \in free : \A q \in free : o <= q
       ELSE Len(heap) + 1

\* the subscriber lists by name, as the dict and the objects give them
Registered == [n \in DOMAIN reg |-> heap[reg[n]].clients]

\* an exception leaves the call: it ends a handler's thread (and its with
\* block releases _clients_lock); in the timer's thread _broadcast catches it
Raised(c) ==
    /\ task' = [task EXCEPT ![c] = IdleTask]
    /\ hpc' = IF c = Timer THEN hpc ELSE [hpc EXCEPT ![c] = "dead"]
    /\ clients_lock' = IF clients_lock = c THEN 0 ELSE clients_lock

\* the call returns: to the loop of _remove_client, or to the read loop
Returned(c) ==
    /\ task' = [task EXCEPT ![c] =
                  IF ~@.removing THEN IdleTask
                  ELSE LET rest == @.todo \ {@.n}
                       IN [IdleTask EXCEPT !.removing = TRUE, !.todo = rest,
                                           !.pc = IF rest = {} THEN "rem_finish"
                                                  ELSE "uns_test"]]
    /\ UNCHANGED <<hpc, clients_lock>>

\* a step of a thread that is neither the end of a call nor an exception
Goes(c, t) ==
    /\ task' = [task EXCEPT ![c] = t]
    /\ UNCHANGED <<hpc, clients_lock>>

\* a request of session c is being processed, or the timer's thread runs
Runs(c) == IF c = Timer THEN TRUE ELSE Handling(c)

\* ChannelManager.subscribe: if name not in self._channels
subscribe_test(c, n) ==
    /\ c \in Admitted /\ Handling(c)
    /\ task[c].pc = "idle"
    /\ Goes(c, [IdleTask EXCEPT !.n = n,
                  !.pc = IF n \in DOMAIN reg THEN "sub_lookup" ELSE "sub_create"])
    /\ io' = NoIo
    /\ UNCHANGED <<peer, sock, lpc, lsock, gate, clients, channels, now, reg, heap>>
    /\ UNCHANGED schedVars
    /\ UNCHANGED readVars
    /\ UNCHANGED locking

\* ChannelManager.subscribe: self._channels[name] = Channel(name=name)
subscribe_create(c) ==
    /\ task[c].pc = "sub_create"
    /\ NewSlot <= MaxChannels
    /\ heap' = IF NewSlot > Len(heap) THEN Append(heap, NewChannel)
               ELSE [heap EXCEPT ![NewSlot] = NewChannel]
    /\ reg' = [m \in DOMAIN reg \cup {task[c].n} |->
                  IF m = task[c].n THEN NewSlot ELSE reg[m]]
    /\ Goes(c, [task[c] EXCEPT !.pc = "sub_lookup"])
    /\ io' = NoIo
    /\ UNCHANGED <<peer, sock, lpc, lsock, gate, clients, channels, now>>
    /\ UNCHANGED schedVars
    /\ UNCHANGED readVars
    /\ UNCHANGED locking

\* ChannelManager.subscribe: the evaluation of self._channels[name]
subscribe_lookup(c) ==
    /\ task[c].pc = "sub_lookup"
    /\ IF task[c].n \in DOMAIN reg
       THEN Goes(c, [task[c] EXCEPT !.pc = "sub_append", !.ref = reg[task[c].n]])
       ELSE Raised(c)
    /\ io' = NoIo
    /\ UNCHANGED <<peer, sock, lpc, lsock, gate, clients, channels, now, reg, heap>>
    /\ UNCHANGED schedVars
    /\ UNCHANGED readVars
    /\ UNCHANGED locking

\* Channel.subscribe: the append, under the channel's lock
Channel_subscribe(c) ==
    /\ task[c].pc = "sub_append"
    /\ heap[task[c].ref].lock = 0
    /\ Len(heap[task[c].ref].clients) < MaxSubs
    /\ heap' = [heap EXCEPT ![task[c].ref].clients = Append(@, c)]
    /\ Returned(c)
    /\ io' = NoIo
    /\ UNCHANGED <<peer, sock, lpc, lsock, gate, clients, channels, now, reg>>
    /\ UNCHANGED schedVars
    /\ UNCHANGED readVars
    /\ UNCHANGED locking

\* ChannelManager.unsubscribe called for a request: if name in self._channels
unsubscribe_test(c, n) ==
    /\ c \in Admitted /\ Handling(c)
    /\ task[c].pc = "idle"
    /\ n \in DOMAIN reg
    /\ Goes(c, [IdleTask EXCEPT !.n = n, !.pc = "uns_lookup"])
    /\ io' = NoIo
    /\ UNCHANGED <<peer, sock, lpc, lsock, gate, clients, channels, now, reg, heap>>
    /\ UNCHANGED schedVars
    /\ UNCHANGED readVars
    /\ UNCHANGED locking

\* ChannelManager.unsubscribe: the evaluation of self._channels[name] whose
\* unsubscribe is called
unsubscribe_lookup(c) ==
    /\ task[c].pc = "uns_lookup"
    /\ IF task[c].n \in DOMAIN reg
       THEN Goes(c, [task[c] EXCEPT !.pc = "uns_remove", !.ref = reg[task[c].n]])
       ELSE Raised(c)
    /\ io' = NoIo
    /\ UNCHANGED <<peer, sock, lpc, lsock, gate, clients, channels, now, reg, heap>>
    /\ UNCHANGED schedVars
    /\ UNCHANGED readVars
    /\ UNCHANGED locking

\* Channel.unsubscribe: list.remove under the channel's lock; ValueError when
\* the client is not in the list
Channel_unsubscribe(c) ==
    /\ task[c].pc = "uns_remove"
    /\ heap[task[c].ref].lock = 0
    /\ IF c \in Range(heap[task[c].ref].clients)
       THEN /\ heap' = [heap EXCEPT ![task[c].ref].clients = RemoveFirst(@, c)]
            /\ Goes(c, [task[c] EXCEPT !.pc = "uns_count", !.ref = 0])
       ELSE /\ heap' = heap
            /\ Raised(c)
    /\ io' = NoIo
    /\ UNCHANGED <<peer, sock, lpc, lsock, gate, clients, channels, now, reg>>
    /\ UNCHANGED schedVars
    /\ UNCHANGED readVars
    /\ UNCHANGED locking

\* ChannelManager.unsubscribe: if self._channels[name].subscribers_count() == 0
unsubscribe_count(c) ==
    /\ task[c].pc = "uns_count"
    /\ IF task[c].n \notin DOMAIN reg THEN Raised(c)
       ELSE IF heap[reg[task[c].n]].clients = <<>>
       THEN Goes(c, [task[c] EXCEPT !.pc = "uns_pop"])
       ELSE Returned(c)
    /\ io' = NoIo
    /\ UNCHANGED <<peer, sock, lpc, lsock, gate, clients, channels, now, reg, heap>>
    /\ UNCHANGED schedVars
    /\ UNCHANGED readVars
    /\ UNCHANGED locking

\* ChannelManager.unsubscribe: self._channels.pop(name)
unsubscribe_pop(c) ==
    /\ task[c].pc = "uns_pop"
    /\ IF task[c].n \in DOMAIN reg
       THEN /\ reg' = [m \in DOMAIN reg \ {task[c].n} |-> reg[m]]
            /\ Returned(c)
       ELSE /\ reg' = reg
            /\ Raised(c)
    /\ io' = NoIo
    /\ UNCHANGED <<peer, sock, lpc, lsock, gate, clients, channels, now, heap>>
    /\ UNCHANGED schedVars
    /\ UNCHANGED readVars
    /\ UNCHANGED locking

\* ChannelManager.broadcast_message, called by _publish or by
\* TimeEventManager._broadcast: if channel_name in self._channels
broadcast_message_test(c, n) ==
    /\ c \in Tasks /\ Runs(c)
    /\ task[c].pc = "idle"
    /\ n \in DOMAIN reg
    /\ Goes(c, [IdleTask EXCEPT !.n = n, !.pc = "pub_lookup"])
    /\ io' = NoIo
    /\ UNCHANGED <<peer, sock, lpc, lsock, gate, clients, channels, now, reg, heap>>
    /\ UNCHANGED schedVars
    /\ UNCHANGED readVars
    /\ UNCHANGED locking

\* ChannelManager.broadcast_message: channel = self._channels[channel_name]
broadcast_message_lookup(c) ==
    /\ task[c].pc = "pub_lookup"
    /\ IF task[c].n \in DOMAIN reg
       THEN Goes(c, [task[c] EXCEPT !.pc = "pub_lock", !.ref = reg[task[c].n]])
       ELSE Raised(c)
    /\ io' = NoIo
    /\ UNCHANGED <<peer, sock, lpc, lsock, gate, clients, channels, now, reg, heap>>
    /\ UNCHANGED schedVars
    /\ UNCHANGED readVars
    /\ UNCHANGED locking

\* Channel.broadcast: with self._lock
Channel_broadcast_acquire(c) ==
    /\ task[c].pc = "pub_lock"
    /\ heap[task[c].ref].lock = 0
    /\ heap' = [heap EXCEPT ![task[c].ref].lock = c]
    /\ Goes(c, [task[c] EXCEPT !.pc = "pub_send", !.pos = 1])
    /\ io' = NoIo
    /\ UNCHANGED <<peer, sock, lpc, lsock, gate, clients, channels, now, reg>>
    /\ UNCHANGED schedVars
    /\ UNCHANGED readVars
    /\ UNCHANGED locking

\* Channel.broadcast: one turn of the loop over self._clients, or its end; the
\* lock is released at the end and by an exception
Channel_broadcast_send(c) ==
    /\ task[c].pc = "pub_send"
    /\ LET ch == heap[task[c].ref]
           released == [heap EXCEPT ![task[c].ref].lock = 0]
       IN IF task[c].pos > Len(ch.clients)
          THEN /\ heap' = released
               /\ Returned(c)
               /\ io' = NoIo
          ELSE \E raised \in send_message(ch.clients[task[c].pos]) :
                /\ io' = NoIo
                /\ IF raised
                   THEN /\ heap' = released
                        /\ Raised(c)
                   ELSE /\ heap' = heap
                        /\ Goes(c, [task[c] EXCEPT !.pos = @ + 1])
    /\ UNCHANGED <<peer, sock, lpc, lsock, gate, clients, channels, now, reg>>
    /\ UNCHANGED schedVars
    /\ UNCHANGED readVars
    /\ UNCHANGED locking

\* ClientManager._remove_client: with self._clients_lock, and the start of the
\* loop of get_subscribed_channels (for channel in self._channels): the
\* iterator is made and gives its first key, or ends the loop at once
remove_client_begin(c) ==
    /\ c \in Admitted
    /\ hpc[c] = "run"
    /\ peer[c] \in {"eof", "reset"}
    /\ task[c].pc = "idle"
    /\ clients_lock = 0
    /\ clients_lock' = c
    /\ task' = [task EXCEPT ![c] =
                  IF DOMAIN reg = {}
                  THEN [IdleTask EXCEPT !.pc = "rem_finish", !.removing = TRUE]
                  ELSE LET n == CHOOSE m \in DOMAIN reg : TRUE
                       IN [IdleTask EXCEPT !.pc = "rem_body", !.removing = TRUE,
                                           !.n = n, !.keys = DOMAIN reg \ {n},
                                           !.size = Cardinality(DOMAIN reg)]]
    /\ io' = NoIo
    /\ UNCHANGED <<peer, sock, lpc, lsock, gate, clients, hpc, channels, now, reg, heap>>
    /\ UNCHANGED schedVars
    /\ UNCHANGED readVars
    /\ UNCHANGED locking

\* get_subscribed_channels: the iterator's next after a turn of the loop.
\* RuntimeError when the size
\* of the dict is not what it was when the iterator was made; the end of the
\* loop when no key is left.
get_subscribed_channels_next(c) ==
    /\ task[c].pc = "rem_next"
    /\ IF Cardinality(DOMAIN reg) # task[c].size THEN Raised(c)
       ELSE IF task[c].keys = {}
       THEN Goes(c, [task[c] EXCEPT !.n = "", !.size = 0,
                       !.pc = IF task[c].todo = {} THEN "rem_finish" ELSE "uns_test"])
       ELSE LET n == CHOOSE m \in task[c].keys : TRUE
            IN Goes(c, [task[c] EXCEPT !.n = n, !.keys = @ \ {n}, !.pc = "rem_body"])
    /\ io' = NoIo
    /\ UNCHANGED <<peer, sock, lpc, lsock, gate, clients, channels, now, reg, heap>>
    /\ UNCHANGED schedVars
    /\ UNCHANGED readVars
    /\ UNCHANGED locking

\* get_subscribed_channels: if client in self._channels[channel].subscribers
get_subscribed_channels_body(c) ==
    /\ task[c].pc = "rem_body"
    /\ IF task[c].n \notin DOMAIN reg THEN Raised(c)
       ELSE Goes(c, [task[c] EXCEPT !.pc = "rem_next",
                       !.todo = IF task[c].n \in get_subscribed_channels(Registered, c)
                                THEN @ \cup {task[c].n} ELSE @])
    /\ io' = NoIo
    /\ UNCHANGED <<peer, sock, lpc, lsock, gate, clients, channels, now, reg, heap>>
    /\ UNCHANGED schedVars
    /\ UNCHANGED readVars
    /\ UNCHANGED locking

\* _remove_client: the call of ChannelManager.unsubscribe for the next
\* subscribed channel, and its test if name in self._channels
remove_client_unsubscribe(c) ==
    /\ task[c].pc = "uns_test"
    /\ LET n == CHOOSE m \in task[c].todo : TRUE
       IN IF n \in DOMAIN reg
          THEN Goes(c, [task[c] EXCEPT !.n = n, !.pc = "uns_lookup"])
          ELSE /\ task' = [task EXCEPT ![c] =
                             [@ EXCEPT !.todo = @ \ {n},
                                       !.pc = IF task[c].todo = {n} THEN "rem_finish"
                                              ELSE "uns_test"]]
               /\ UNCHANGED <<hpc, clients_lock>>
    /\ io' = NoIo
    /\ UNCHANGED <<peer, sock, lpc, lsock, gate, clients, channels, now, reg, heap>>
    /\ UNCHANGED schedVars
    /\ UNCHANGED readVars
    /\ UNCHANGED locking

\* _remove_client after the loop: the client leaves _clients, the socket is
\* shut down and closed, the event is set, _clients_lock is released
remove_client_finish(c) ==
    /\ task[c].pc = "rem_finish"
    /\ clients' = RemoveFirst(clients, c)
    /\ \E raises \in ShutdownRaises(c) :
        /\ IF raises
           THEN /\ hpc' = [hpc EXCEPT ![c] = "dead"]
                /\ UNCHANGED <<sock, gate>>
           ELSE /\ hpc' = [hpc EXCEPT ![c] = "done"]
                /\ sock' = [sock EXCEPT ![c] = "closed"]
                /\ gate' = GateAfterRemove(clients', gate)
        /\ io' = NoIo
    /\ task' = [task EXCEPT ![c] = IdleTask]
    /\ clients_lock' = 0
    /\ UNCHANGED <<peer, lpc, lsock, channels, now, reg, heap>>
    /\ UNCHANGED schedVars
    /\ UNCHANGED readVars
    /\ UNCHANGED locking

----------------------------------------------------------------------------
(***************************************************************************)
(* The server after Server._create: nothing connected, the event set.      *)
(***************************************************************************)
Init ==
    /\ peer = [c \in Conns |-> "none"]
    /\ sock = [c \in Conns |-> "none"]
    /\ lpc = "wait"
    /\ lsock = 0
    /\ gate = TRUE
    /\ clients = <<>>
    /\ hpc = [c \in Conns |-> "none"]
    /\ channels = [n \in {} |-> <<>>]
    /\ time_events = <<>>
    /\ executor = 0
    /\ executors = <<>>
    /\ now = 0
    /\ nextId = 0
    /\ io = NoIo
    /\ delivs = [i \in EventIds |-> 0]
    /\ received = [i \in EventIds |-> [c \in Conns |-> 0]]
    /\ NothingWritten
    /\ RegistryIdle

\* the steps of the listener, of the handler threads and of the peers
Next ==
    \/ \E c \in Conns : PeerConnect(c)
    \/ \E c \in Conns : PeerClose(c)
    \/ start_listen_wait
    \/ start_listen_accept
    \/ add_client
    \/ \E c \in Conns : remove_client(c)
    \/ \E c \in Conns : ping(c)
    \/ \E c \in Conns, n \in Names : subscribe(c, n)
    \/ \E c \in Conns, n \in Names : unsubscribe(c, n)
    \/ \E c \in Conns, n \in Names, d \in Data : publish(c, n, d)

Spec == Init /\ [][Next]_vars

\* the listener thread and the handler threads are scheduled: a thread that
\* can take its step takes it.  Requests and connections are up to the peers.
FairSpec ==
    /\ Spec
    /\ WF_vars(start_listen_wait)
    /\ WF_vars(start_listen_accept)
    /\ WF_vars(add_client)
    /\ \A c \in Conns : WF_vars(remove_client(c))

(***************************************************************************)
(* The scheduler, started with MAX_CLIENTS sessions admitted: the steps of *)
(* the executor threads and of the clock, and the steps of the sessions    *)
(* that decide what a time event's broadcast meets.                        *)
(***************************************************************************)
\* MAX_CLIENTS sessions admitted, nothing subscribed, no time event
SessionsAdmitted ==
    /\ peer = [c \in Conns |-> IF c \in Admitted THEN "connected" ELSE "none"]
    /\ sock = [c \in Conns |-> IF c \in Admitted THEN "open" ELSE "none"]
    /\ lpc = "wait"
    /\ lsock = 0
    /\ gate = FALSE
    /\ clients = [i \in Admitted |-> i]
    /\ hpc = [c \in Conns |-> IF c \in Admitted THEN "run" ELSE "none"]
    /\ channels = [n \in {} |-> <<>>]
    /\ time_events = <<>>
    /\ executor = 0
    /\ executors = <<>>
    /\ now = 0
    /\ nextId = 0
    /\ io = NoIo
    /\ delivs = [i \in EventIds |-> 0]
    /\ received = [i \in EventIds |-> [c \in Conns |-> 0]]

SchedInit == SessionsAdmitted /\ NothingWritten /\ RegistryIdle

SchedNext ==
    \/ \E c \in Conns : PeerClose(c)
    \/ \E c \in Conns, n \in Names : subscribe(c, n)
    \/ /\ nextId < MaxEvents
       /\ \E c \in Conns, n \in Names, ts \in Times, d \in Data :
             add_time_event(c, n, ts, d)
    \/ \E t \in 1..Len(executors) : executor_start(t)
    \/ \E t \in 1..Len(executors) : TimeEventManager_broadcast(t)
    \/ Tick

SchedSpec == SchedInit /\ [][SchedNext]_vars

\* the executor threads are scheduled and the clock advances
FairSchedSpec ==
    /\ SchedSpec
    /\ WF_vars(\E t \in 1..Len(executors) : executor_start(t))
    /\ WF_vars(\E t \in 1..Len(executors) : TimeEventManager_broadcast(t))
    /\ WF_vars(Tick)

(***************************************************************************)
(* The requests that call no verb, sent by the admitted sessions: the      *)
(* steps of process_message beside those of a subscribe, of a disconnect   *)
(* and of the removal.                                                     *)
(***************************************************************************)
RequestNext ==
    \/ \E c \in Conns : PeerClose(c)
    \/ \E c \in Conns : remove_client(c)
    \/ \E c \in Conns, n \in Names : subscribe(c, n)
    \/ \E c \in Conns, m \in Requests : process_message(c, m)

RequestSpec == SchedInit /\ [][RequestNext]_vars

\* The scheduler alone, with requests whose exec_timestamp may be NaN: the
\* sessions send add_time_event, the executors' threads and the clock run.
FloatNext ==
    \/ /\ nextId < MaxFloatEvents
       /\ \E c \in Conns, n \in Names, ts \in Times \cup {NaN}, d \in Data :
             add_time_event(c, n, ts, d)
    \/ \E t \in DOMAIN executors : executor_start(t)
    \/ \E t \in DOMAIN executors : TimeEventManager_broadcast(t)
    \/ Tick

FloatSpec == SchedInit /\ [][FloatNext]_vars

\* The scheduler and the removal of sessions: a session subscribes, submits
\* time events, its peer leaves and its handler removes it.
DepartNext ==
    \/ \E c \in Conns : PeerClose(c)
    \/ \E c \in Conns : remove_client(c)
    \/ \E c \in Conns, n \in Names : subscribe(c, n)
    \/ /\ nextId < MaxEvents
       /\ \E c \in Conns, n \in Names, ts \in Times, d \in Data :
             add_time_event(c, n, ts, d)
    \/ \E t \in DOMAIN executors : executor_start(t)
    \/ \E t \in DOMAIN executors : TimeEventManager_broadcast(t)
    \/ Tick

DepartSpec == SchedInit /\ [][DepartNext]_vars

\* The registry under concurrent calls: the handlers of the admitted sessions
\* subscribe, unsubscribe, publish and remove their session, the timer's
\* thread broadcasts, each statement a step.
RaceNext ==
    \/ \E c \in Admitted : PeerClose(c)
    \/ \E c \in Tasks, n \in Names : subscribe_test(c, n)
    \/ \E c \in Tasks : subscribe_create(c)
    \/ \E c \in Tasks : subscribe_lookup(c)
    \/ \E c \in Tasks : Channel_subscribe(c)
    \/ \E c \in Tasks, n \in Names : unsubscribe_test(c, n)
    \/ \E c \in Tasks : unsubscribe_lookup(c)
    \/ \E c \in Tasks : Channel_unsubscribe(c)
    \/ \E c \in Tasks : unsubscribe_count(c)
    \/ \E c \in Tasks : unsubscribe_pop(c)
    \/ \E c \in Tasks, n \in Names : broadcast_message_test(c, n)
    \/ \E c \in Tasks : broadcast_message_lookup(c)
    \/ \E c \in Tasks : Channel_broadcast_acquire(c)
    \/ \E c \in Tasks : Channel_broadcast_send(c)
    \/ \E c \in Tasks : remove_client_begin(c)
    \/ \E c \in Tasks : get_subscribed_channels_next(c)
    \/ \E c \in Tasks : get_subscribed_channels_body(c)
    \/ \E c \in Tasks : remove_client_unsubscribe(c)
    \/ \E c \in Tasks : remove_client_finish(c)

RaceSpec == SchedInit /\ [][RaceNext]_vars

(***************************************************************************)
(* The locks.  Every acquisition in the package is a with block, so a call *)
(* is the sequence of acquisitions and releases its with blocks make,      *)
(* nested as the calls nest; threading.Lock is not reentrant.              *)
(***************************************************************************)
\* ClientManager._clients_lock
ClientsLock == <<"_clients_lock", 0>>
\* TimeEventManager._lock, the lock of the events
EventsLock == <<"_lock", 0>>
\* TimeEventManager._executor_lock
ExecutorLock == <<"_executor_lock", 0>>
\* Channel._lock of the Channel object o
ChannelLock(o) == <<"Channel._lock", o>>

Objects == 1..MaxChannels

\* with l: body
With(l, body) ==
    <<[do |-> "acquire", lock |-> l]>> \o body \o <<[do |-> "release", lock |-> l]>>

\* PumpdulerMessage.IMPORT_LOCK
ImportLock == <<"IMPORT_LOCK", 0>>

\* Channel.subscribe, Channel.unsubscribe: with self._lock around the append,
\* the remove
Channel_locks(o) == With(ChannelLock(o), <<>>)

\* Client.send_message: PumpdulerMessage.dump calls setup, with IMPORT_LOCK
send_message_locks == With(ImportLock, <<>>)

\* Channel.broadcast: with self._lock around the loop of sends
Channel_broadcast_locks(o) == With(ChannelLock(o), send_message_locks)

\* TimeEventManager._update_executor: with self._executor_lock
update_executor_locks == With(ExecutorLock, <<>>)

\* the inverted nesting: the events lock inside the executor lock
add_event_locks_inverted == With(ExecutorLock, With(EventsLock, <<>>))

\* TimeEventManager.add_event: with self._lock, _update_executor inside it
add_event_locks == With(EventsLock, update_executor_locks)

\* TimeEventManager._broadcast: with self._lock; when the event is the head,
\* broadcast_message (Channel.broadcast when the name is registered), and,
\* when that did not raise, _update_executor
TimeEventManager_broadcast_locks ==
    {With(EventsLock, <<>>)} \cup
    {With(EventsLock, fan \o upd) :
        fan \in {<<>>} \cup {Channel_broadcast_locks(o) : o \in Objects},
        upd \in {<<>>, update_executor_locks}}

\* the Channel objects of a session's names, in the order of the dict
ChannelOrders ==
    {chs \in UNION {[1..k -> Objects] : k \in 0..MaxChannels} :
        \A i, j \in DOMAIN chs : i # j => chs[i] # chs[j]}

\* the loop of _remove_client: ChannelManager.unsubscribe for each name
RECURSIVE unsubscribe_each(_)
unsubscribe_each(chs) ==
    IF chs = <<>> THEN <<>>
    ELSE Channel_locks(Head(chs)) \o unsubscribe_each(Tail(chs))

\* ClientManager._remove_client: with self._clients_lock around the loop and
\* the removal (an exception in the loop leaves the with block early)
remove_client_locks(chs) == With(ClientsLock, unsubscribe_each(chs))

\* ClientManager.add_client: with self._clients_lock
add_client_locks == With(ClientsLock, <<>>)

\* what a thread can be asked to do: a handler runs subscribe, unsubscribe,
\* publish, add_time_event and, at the end, _remove_client; an executor's
\* thread runs _broadcast; the accept loop runs add_client
Calls(t) ==
    IF t = Acceptor THEN {add_client_locks}
    ELSE IF t \in Executors THEN TimeEventManager_broadcast_locks
    ELSE {Channel_locks(o) : o \in Objects}
         \cup {Channel_broadcast_locks(o) : o \in Objects}
         \cup {add_event_locks}
         \cup {remove_client_locks(chs) : chs \in ChannelOrders}

\* the thread holding the lock l, 0 when it is free
Holder(l) ==
    IF \E t \in Threads : l \in Range(locking[t].held)
    THEN CHOOSE t \in Threads : l \in Range(locking[t].held)
    ELSE 0

\* the lock thread t is about to acquire
Wanted(t) ==
    IF locking[t].todo # <<>> /\ Head(locking[t].todo).do = "acquire"
    THEN {Head(locking[t].todo).lock} ELSE {}

\* thread t enters a call
call(t, s) ==
    /\ locking[t] = NoLocks
    /\ s \in Calls(t) /\ s # <<>>
    /\ locking' = [locking EXCEPT ![t].todo = s]
    /\ io' = NoIo
    /\ UNCHANGED <<peer, sock, lpc, lsock, gate, clients, hpc, channels, now,
                   reg, heap, task, clients_lock>>
    /\ UNCHANGED schedVars
    /\ UNCHANGED readVars

\* __enter__ of a with block: Lock.acquire, which waits while the lock is held
acquire(t) ==
    /\ Wanted(t) # {}
    /\ \A l \in Wanted(t) :
        /\ Holder(l) = 0
        /\ locking' = [locking EXCEPT ![t].held = Append(@, l),
                                      ![t].todo = Tail(@)]
    /\ io' = NoIo
    /\ UNCHANGED <<peer, sock, lpc, lsock, gate, clients, hpc, channels, now,
                   reg, heap, task, clients_lock>>
    /\ UNCHANGED schedVars
    /\ UNCHANGED readVars

\* __exit__ of a with block: Lock.release
release(t) ==
    /\ locking[t].todo # <<>>
    /\ Head(locking[t].todo).do = "release"
    /\ locking' = [locking EXCEPT
                     ![t].held = SelectSeq(@, LAMBDA l : l # Head(locking[t].todo).lock),
                     ![t].todo = Tail(@)]
    /\ io' = NoIo
    /\ UNCHANGED <<peer, sock, lpc, lsock, gate, clients, hpc, channels, now,
                   reg, heap, task, clients_lock>>
    /\ UNCHANGED schedVars
    /\ UNCHANGED readVars

LockNext ==
    \/ \E t \in Threads : \E s \in Calls(t) : call(t, s)
    \/ \E t \in Threads : acquire(t)
    \/ \E t \in Threads : release(t)

LockSpec == SchedInit /\ [][LockNext]_vars

(***************************************************************************)
(* The read loop of the first session on what its peer wrote: any payloads *)
(* and tail within the bounds, cut into chunks in any way.                 *)
(***************************************************************************)
ReadInit ==
    /\ SessionsAdmitted
    /\ \E ps \in PayloadSeqs, tl \in Tails :
        /\ written = [payloads |-> ps, tail |-> tl]
        /\ wire = Stream(ps) \o tl
    /\ data = <<>>
    /\ yielded = <<>>
    /\ handled = <<>>
    /\ RegistryIdle

ReadNext == \E k \in 1..READ_SIZE : handle(k)

ReadSpec == ReadInit /\ [][ReadNext]_vars

----------------------------------------------------------------------------
----------------------------------------------------------------------------
(***************************************************************************)
(* Properties.                                                            *)
(***************************************************************************)
\* the sessions in the subscriber list of some channel
InSomeChannel(c) == \E n \in DOMAIN channels : c \in Range(channels[n])

\* C1: a publish calls send once for every entry of the channel's subscriber
\* list, in subscription order, and for no other session.
PublishSendsToEveryEntry ==
    io.op = "publish" => /\ io.sent = io.subs
                         /\ io.type = PUBLISHED_EVENT

\* C2: when a send of a fan-out fails, the fan-out still calls send for every
\* entry of the list, and no exception reaches the task that broadcast.
FailingSendIsIsolated ==
    (io.op \in {"publish", "fire"} /\ Len(io.delivered) < Len(io.sent))
        => /\ Len(io.sent) = Len(io.subs)
           /\ ~io.raised
           /\ io.op = "publish" => hpc[io.by] = "run"

\* C3: the client registry never holds more than MAX_CLIENTS live sessions.
ClientsWithinMax == Len(clients) <= MAX_CLIENTS

\* C3 witness: the registry is full again after a session was removed
FullAgainAfterRemoval ==
    /\ Len(clients) = MAX_CLIENTS
    /\ ~gate
    /\ \E c \in Conns : hpc[c] = "done"

\* C4: a step taken while the registry is full admits nobody; once the registry
\* is full, a disconnect of a live session leads to the gate being set again,
\* and a connection waiting then is admitted.
AdmissionRecovers ==
    /\ [][Len(clients) = MAX_CLIENTS => Len(clients') <= MAX_CLIENTS]_vars
    /\ \A c \in Conns :
        (Len(clients) = MAX_CLIENTS /\ c \in Range(clients) /\ peer[c] \in {"eof", "reset"})
            ~> gate
    /\ \A w \in Conns :
        (/\ Len(clients) = MAX_CLIENTS
         /\ \E c \in Range(clients) : peer[c] \in {"eof", "reset"}
         /\ peer[w] # "none" /\ sock[w] = "none")
            ~> (hpc[w] # "none")

\* C5: no time event is broadcast (a fan-out that delivers its frame) twice.
EventBroadcastAtMostOnce == \A i \in EventIds : delivs[i] <= 1

\* C6: every time event added leaves the sequence again.
EventsEventuallyFire ==
    \A i \in EventIds :
        (\E k \in 1..Len(time_events) : time_events[k].id = i)
            ~> (\A k \in 1..Len(time_events) : time_events[k].id # i)

RemovedSessionInNoChannel ==
    \A c \in Conns : sock[c] = "closed" => ~InSomeChannel(c)

\* C9: the registry has an entry for a name exactly when the name has a
\* subscriber: no entry is empty, a subscribe leaves the entry with the new
\* subscriber at the end, and the unsubscribe or the removal of the last
\* subscriber leaves no entry.
RegistryMatchesSubscribers ==
    /\ \A n \in DOMAIN channels : channels[n] # <<>>
    /\ Cardinality(DOMAIN channels) = Cardinality({n \in Names : Len(Subscribers(n)) > 0})
    /\ io.op = "subscribe" => /\ io.chan \in DOMAIN channels
                              /\ channels[io.chan] = Append(io.subs, io.by)
    /\ (io.op = "unsubscribe" /\ io.subs = <<io.by>>) => io.chan \notin DOMAIN channels

\* C9 witness: the last subscriber of a channel unsubscribed, the entry is gone
LastSubscriberLeft ==
    /\ io.op = "unsubscribe"
    /\ io.subs = <<io.by>>
    /\ io.chan \notin DOMAIN channels

\* C10: an unsubscribe from a channel the session is not in changes nothing,
\* sends nothing, and the session's handler goes on.
UnsubscribeOfNonMemberIsHarmless ==
    (io.op = "unsubscribe" /\ io.subs # <<>> /\ io.by \notin Range(io.subs))
        => /\ Subscribers(io.chan) = io.subs
           /\ io.sent = <<>>
           /\ hpc[io.by] = "run"

\* C11: a session whose peer closed the connection, or whose socket met a
\* connection error, is eventually out of every subscriber list and out of the
\* client registry, with the accept event set for the slot it held.
ConnectionLostCleansUp ==
    \A c \in Conns :
        (c \in Range(clients) /\ peer[c] \in {"eof", "reset"})
            ~> (c \notin Range(clients) /\ ~InSomeChannel(c) /\ gate)

\* C17: the accept event is cleared exactly when the client registry holds
\* MAX_CLIENTS sessions or more (add_client and _remove_client are single
\* steps: between steps none of them is in progress).
GateMatchesCount == gate <=> Len(clients) < MAX_CLIENTS

\* a timer that is started, not marked skipped and not past its wait
Armed(x) == x.pc = "wait" /\ ~x.is_skipped

\* C18: at most one timer is armed, and it is the scheduler's current one; a
\* step that starts a timer leaves the timer that was current marked skipped.
AtMostOneArmed ==
    /\ [](/\ Cardinality({t \in 1..Len(executors) : Armed(executors[t])}) <= 1
          /\ \A t \in 1..Len(executors) : Armed(executors[t]) => t = executor)
    /\ [][(Len(executors') > Len(executors) /\ executor # 0)
             => executors'[executor].is_skipped]_vars

\* C18 witness: a skipped timer still in its wait beside the armed one
SkippedBesideArmed ==
    \E t, u \in 1..Len(executors) :
        /\ t # u
        /\ executors[t].pc = "wait" /\ executors[t].is_skipped
        /\ Armed(executors[u])

\* C19: while the sequence is not empty, the scheduler has a current timer and
\* the id it is bound to is the id of the event at position 0 (add_event and
\* _broadcast are single steps: between steps the events lock is free).
HeadBoundToCurrentTimer ==
    time_events # <<>> => /\ executor # 0
                          /\ executors[executor].time_event.id = time_events[1].id

\* C19 witness: the event added second is at position 0 of two, and current
SecondAddedIsHeadAndCurrent ==
    /\ Len(time_events) = 2
    /\ time_events[1].id = 2
    /\ executor # 0
    /\ executors[executor].time_event.id = 2

MalformedRequestKeepsLoop ==
    (/\ io.op = "process_message"
     /\ \/ ~io.req.obj
        \/ "action" \notin io.req.keys
        \/ (io.req.action \in Actions /\ ~(Required(io.req.action) \subseteq io.req.keys)))
        => /\ hpc[io.by] = "run"
           /\ ~io.raised

\* C14: a request whose action names no verb has one error_message, naming the
\* action, sent to its session and to no other, and changes neither the
\* channels, nor the clients, nor the scheduler.
UnknownActionGetsErrorMessage ==
    [][(/\ io'.op = "process_message"
        /\ io'.req.obj
        /\ "action" \in io'.req.keys
        /\ io'.req.action \notin Actions)
          => /\ io'.sent = <<io'.by>>
             /\ io'.type = ERROR_MESSAGE
             /\ io'.data = io'.req.action
             /\ channels' = channels
             /\ clients' = clients
             /\ UNCHANGED schedVars]_vars

\* C16: of two publishes to one channel, one after the other, every session
\* that is in the subscriber list at both and whose connection is sound gets
\* the frame of the first in the first's step and the frame of the second in
\* the second's step, so the first's frame before the second's.
PublishesArriveInOrder ==
    [][(io.op = "publish" /\ io'.op = "publish" /\ io'.chan = io.chan)
          => \A s \in Range(io.subs) \cap Range(io'.subs) :
                (sock[s] = "open" /\ peer[s] = "connected")
                    => /\ s \in Range(io.delivered)
                       /\ s \in Range(io'.delivered)]_vars

\* the payloads of ps that decode
Decodable(ps) == SelectSeq(ps, LAMBDA p : load(p) = "value")

\* C13: a payload that fails to decode does not end the read loop nor close
\* the socket and changes nothing: the values handled are those of the
\* payloads that decode, in order, the channel has one entry for each, and
\* once everything written is received every payload has been split off.
DecodeFailureIsDropped ==
    /\ hpc[Reader] = "run"
    /\ sock[Reader] = "open"
    /\ Len(handled) = Len(Decodable(yielded))
    /\ Len(Subscribers("x")) = Len(handled)
    /\ wire = <<>> => yielded = written.payloads

----------------------------------------------------------------------------
\* C21: a time-event broadcast that did not raise removes the event at
\* position 0 and nothing else, the other events keep their order, and when
\* events remain the same step starts a new executor, waiting and not skipped,
\* bound to the new first event
SuccessfulFirePopsHeadAndReseats ==
    [][(io'.op = "fire" /\ ~io'.raised)
        => /\ time_events # <<>>
           /\ time_events[1].id = io'.ev
           /\ time_events' = SubSeq(time_events, 2, Len(time_events))
           /\ time_events' # <<>>
               => /\ executor' = Len(executors) + 1
                  /\ Len(executors') = Len(executors) + 1
                  /\ Armed(executors'[executor'])
                  /\ executors'[executor'].time_event = time_events'[1]]_vars

\* an event fired without raising, another one remained and its timer waits
FiredAndNextArmed ==
    /\ io.op = "fire" /\ ~io.raised
    /\ time_events # <<>>
    /\ executor # 0
    /\ Armed(executors[executor])
    /\ executors[executor].time_event.id = time_events[1].id

\* the broadcast of the first event raised and its executor's thread has
\* ended: no timer is running for the head
HeadFailed ==
    /\ time_events # <<>>
    /\ executor # 0
    /\ executors[executor].pc = "exit"

\* C22: a time-event broadcast that raises leaves the sequence as it is and
\* ends the executor's thread without starting another one, and the next
\* add_event, whatever the new event's deadline, leaves an executor that is
\* waiting and not skipped, bound to the first event
FailedFireKeepsEventAndNextAddRearms ==
    [][/\ (io'.op = "fire" /\ io'.raised)
            => /\ time_events' = time_events
               /\ Len(executors') = Len(executors)
               /\ \A t \in DOMAIN executors :
                     executors'[t] # executors[t] => executors'[t].pc = "exit"
       /\ (io'.op = "add_time_event" /\ HeadFailed)
            => /\ Armed(executors'[executor'])
               /\ executors'[executor'].time_event.id = time_events'[1].id]_vars

\* _executor has fired or has been skipped: a skip() of it finds a timer
\* that is over
CurrentIsOver ==
    /\ executor # 0
    /\ executors[executor].is_skipped \/ executors[executor].pc # "wait"

\* C23: when _update_executor calls skip on an executor that has already fired
\* or is already skipped, that executor does not move (no broadcast comes of
\* it), the sequence is exactly what the add or the pop made of it, and an
\* executor, waiting and not skipped, is started for the first event if there
\* is one
SkipOfFinishedTimerIsHarmless ==
    [][(/\ CurrentIsOver
        /\ io'.op \in {"add_time_event", "fire"} /\ ~io'.raised
        /\ \/ time_events' = <<>>
           \/ executors[executor].time_event.id # time_events'[1].id)
        => /\ executors'[executor].is_skipped
           /\ executors'[executor].pc = executors[executor].pc
              \/ (io'.op = "fire" /\ executors[executor].pc = "fire"
                                  /\ executors'[executor].pc = "exit")
           /\ delivs' = delivs \/ io'.op = "fire"
           /\ io'.op = "add_time_event"
                => \E e \in Range(time_events') :
                      /\ e.id = io'.ev
                      /\ time_events' = sort(Append(time_events, e))
           /\ io'.op = "fire" => time_events' = pop(time_events)
           /\ time_events' # <<>>
                => /\ executor' = Len(executors) + 1
                   /\ Armed(executors'[executor'])
                   /\ executors'[executor'].time_event.id = time_events'[1].id]_vars

\* the first add_event after the sequence emptied: the executor of the fired
\* event, skipped when the sequence emptied, is skipped again and a new one waits
AddAfterSequenceEmptied ==
    /\ io.op = "add_time_event"
    /\ Len(time_events) = 1
    /\ Len(executors) = 2
    /\ executor = 2
    /\ executors[1].pc = "exit"
    /\ Armed(executors[2])

\* C28: the sequence is sorted ascending by exec_timestamp (no event is
\* stored before an event of smaller exec_timestamp), events of equal
\* exec_timestamp are in the order of their addition (ids are given in that
\* order), and the ids are pairwise distinct
SequenceSortedStableDistinct ==
    \A i, j \in DOMAIN time_events :
        i < j => /\ ~Lt(time_events[j].exec_timestamp, time_events[i].exec_timestamp)
                 /\ time_events[i].id # time_events[j].id
                 /\ time_events[i].exec_timestamp = time_events[j].exec_timestamp
                      => time_events[i].id < time_events[j].id

\* C29: an executor whose thread is past its wait without being skipped, and
\* every broadcast of an event, is not before the event's exec_timestamp; an
\* executor skipped during its wait ends without calling broadcast_func
NoFireBeforeDeadline ==
    [][/\ \A t \in DOMAIN executors' :
            executors'[t].pc = "fire"
                => ~Lt(now', executors'[t].time_event.exec_timestamp)
       /\ io'.op = "fire"
            => /\ time_events # <<>>
               /\ time_events[1].id = io'.ev
               /\ ~Lt(now', time_events[1].exec_timestamp)
       /\ \A t \in DOMAIN executors :
            (executors[t].pc = "wait" /\ executors[t].is_skipped)
                => executors'[t].pc \in {"wait", "exit"}]_vars

\* an event whose deadline was in the future has fired at its deadline
FiredAtItsDeadline ==
    /\ io.op = "fire"
    /\ time_events = <<>>
    /\ executor # 0
    /\ executors[executor].time_event.id = io.ev
    /\ executors[executor].time_event.exec_timestamp = now
    /\ now > 0

\* C30: a time event goes to the sessions in its channel's subscriber list
\* when it fires, whoever submitted it: every session of the list whose
\* connection is sound gets the frame; the removal of a session (the
\* submitter's included) leaves the sequence and the executors as they are;
\* and an event whose channel has no registry entry when it fires is removed
\* without any send, an executor being started for the next first event
EventGoesToSubscribersAtFire ==
    [][/\ io'.op = "fire"
            => /\ io'.subs = Subscribers(io'.chan)
               /\ \A s \in Range(Subscribers(io'.chan)) :
                     (sock[s] = "open" /\ peer[s] = "connected")
                         => s \in Range(io'.delivered)
               /\ io'.chan \notin DOMAIN channels
                     => /\ io'.sent = <<>>
                        /\ time_events' = pop(time_events)
                        /\ time_events' # <<>>
                             => /\ Armed(executors'[executor'])
                                /\ executors'[executor'].time_event.id
                                      = time_events'[1].id
       /\ io'.op = "remove"
            => /\ time_events' = time_events
               /\ executor' = executor
               /\ executors' = executors]_vars

----------------------------------------------------------------------------
\* C24: a subscribe of one session running together with an unsubscribe of
\* another session on the same name never raises and never loses the
\* subscriber: the name is still registered when Channel.subscribe returns,
\* and no pop unregisters a Channel object that has subscribers
SubscribeAtomicWithUnsubscribe ==
    [][\A c \in Admitted :
        /\ task[c].pc \in {"sub_create", "sub_lookup", "sub_append"}
              => hpc'[c] # "dead"
        /\ (task[c].pc = "sub_append" /\ task'[c].pc = "idle")
              => task[c].n \in DOMAIN reg'
        /\ (task[c].pc = "uns_pop" /\ task[c].n \in DOMAIN reg)
              => heap[reg[task[c].n]].clients = <<>>]_vars

\* C25: _remove_client, once begun, runs to its end whatever the other
\* sessions' threads do to the registry meanwhile: no exception leaves it
\* before the client is taken out of _clients, and when it ends (the peer
\* having closed the connection in order) the session is in no registered
\* channel, is out of _clients, its socket is closed and the event is set
RemovalRunsToCompletion ==
    [][\A c \in Admitted :
        /\ (task[c].removing /\ task[c].pc # "rem_finish") => hpc'[c] # "dead"
        /\ (task[c].pc = "rem_finish" /\ peer[c] = "eof" /\ task'[c].pc = "idle")
              => /\ hpc'[c] = "done"
                 /\ c \notin Range(clients')
                 /\ sock'[c] = "closed"
                 /\ gate'
                 /\ \A n \in DOMAIN reg' : c \notin Range(heap'[reg'[n]].clients)]_vars

\* thread c is in the loop of Channel.broadcast for the name n, has sent to
\* a subscriber and has still one to send to
MidFanOut(c, n) ==
    /\ task[c].pc = "pub_send" /\ task[c].n = n
    /\ 1 < task[c].pos /\ task[c].pos <= Len(heap[task[c].ref].clients)

\* thread c sends a frame of its broadcast to the name n in this step
Sends(c, n) ==
    /\ task[c].pc = "pub_send" /\ task[c].n = n
    /\ task'[c].pc = "pub_send" /\ task'[c].pos = task[c].pos + 1

\* C26: two broadcasts to one channel name do not interleave their fan-outs:
\* while a thread is between two sends of its fan-out for the name, no other
\* thread sends a frame of a broadcast to that name
FanOutsDoNotInterleave ==
    [][\A n \in Names : \A a, b \in Tasks :
          (a # b /\ MidFanOut(a, n)) => ~Sends(b, n)]_vars

\* thread t waits for a lock that thread u holds
WaitsOn(t, u) == \E l \in Wanted(t) : l \in Range(locking[u].held)

\* the threads that t waits on, directly or through others
RECURSIVE WaitedOnFrom(_, _)
WaitedOnFrom(S, k) ==
    IF k = 0 THEN S
    ELSE WaitedOnFrom(S \cup {u \in Threads : \E t \in S : WaitsOn(t, u)}, k - 1)
WaitedOn(t) ==
    WaitedOnFrom({u \in Threads : WaitsOn(t, u)}, Cardinality(Threads))

\* no thread is about to acquire the events lock while it holds the executor
\* lock
EventsLockNeverInsideExecutorLock ==
    \A t \in Threads :
        ExecutorLock \in Range(locking[t].held) => EventsLock \notin Wanted(t)

\* no set of threads waits in a cycle
NoWaitCycle == \A t \in Threads : t \notin WaitedOn(t)

\* C27: lock acquisition is deadlock-free: the events lock is never acquired
\* while the executor lock is held, and in no interleaving of the handlers,
\* the executors' threads and the accept loop does a set of threads wait in a
\* cycle on the clients lock, the channel locks, the events lock and the
\* executor lock
LockAcquisitionDeadlockFree ==
    EventsLockNeverInsideExecutorLock /\ NoWaitCycle

\* a handler waits for the events lock, which an executor's thread holds
\* while it waits for a channel's lock, which a handler holds inside the
\* clients lock, for which the accept loop waits
ThreadsWaitInAChain ==
    \E a, b \in Admitted : \E e \in Executors :
        /\ a # b
        /\ WaitsOn(a, e) /\ EventsLock \in Wanted(a)
        /\ WaitsOn(e, b) /\ locking[e].held = <<EventsLock>>
        /\ ClientsLock \in Range(locking[b].held) /\ Len(locking[b].held) = 2
        /\ WaitsOn(Acceptor, b)

\* C31: no subscription receives the time_event frame of an event more than
\* once, also when a fan-out of the event raised partway and the event is
\* broadcast again: after a fire, a session has received no more frames of the
\* event than it has entries in the subscriber list the fan-out iterated
\* (lists only grow in these runs, so an entry is the same subscription in
\* every fan-out)
NoSubscriptionReceivesAnEventTwice ==
    [][io'.op = "fire" =>
          \A c \in Conns :
              received'[io'.ev][c] <= Occurrences(io'.subs, c)]_vars

====
